---- MODULE Spec2Model ----
(***************************************************************************)
(* Model of bin/user/rmi.py: the RMI data fetcher (RMIDataFetcher), the    *)
(* weewx driver loop (RMIDriver.genLoopPackets), the float coercion helper *)
(* (_get_as_float) and the construction of the service (RMIService).       *)
(*                                                                         *)
(* Python values are records [k, n, s]: k is the kind ("none", "num",      *)
(* "str"), n the number of a "num" in tenths (21.5 is 215, 50 is 500),     *)
(* s the text of a "str".  A dict is a function whose DOMAIN is its keys.  *)
(***************************************************************************)
EXTENDS Integers, Sequences, FiniteSets, TLC

VARIABLES
    DEFAULT_FIELD_MAP,  \* the class attribute RMIDataFetcher.DEFAULT_FIELD_MAP
    fetcher,            \* the Fetcher constructed last
    nconstructed,       \* number of RMIDataFetcher constructions so far
    service,            \* outcome of the last RMIService construction
    upstream,           \* what the weather service holds: weather, forecasts
    clock,              \* time.time()
    pc,                 \* position of genLoopPackets
    nticks,             \* iterations of genLoopPackets started
    fetch,              \* the last call of get_weather_packet
    data,               \* genLoopPackets' local data
    packet,             \* genLoopPackets' _packet, the packet yielded last
    slept,              \* argument of the last time.sleep
    open_sessions       \* aiohttp sessions created and not closed

vars == <<DEFAULT_FIELD_MAP, fetcher, nconstructed, service, upstream, clock,
          pc, nticks, fetch, data, packet, slept, open_sessions>>

\* Bounds of the model.
MaxLen == 3
MaxTicks == 2
MaxConstructions == 2

-----------------------------------------------------------------------------
\* Python values.

None == [k |-> "none", n |-> 0, s |-> ""]
Num(i) == [k |-> "num", n |-> i, s |-> ""]
Str(x) == [k |-> "str", n |-> 0, s |-> x]

EmptyDict == [x \in {} |-> None]
EmptyMap == [x \in {} |-> ""]

\* dict.get(key): the value, None when the key is absent.
Get(d, key) == IF key \in DOMAIN d THEN d[key] ELSE None

\* dict.update(other): the entries of other replace or extend those of d.
Update(d, other) == other @@ d

\* bool(v) of a Python value: None, 0 and "" are falsy.
Truthy(v) ==
    CASE v.k = "none" -> FALSE
      [] v.k = "num" -> v.n # 0
      [] v.k = "str" -> v.s # ""

\* The text float() parses, with the number it gives (in tenths).
FloatLiteral == [x \in {"21.5", "0"} |-> IF x = "21.5" THEN 215 ELSE 0]

\* float(v) of a non-None value: the number, or ValueError.
ToFloat(v) ==
    CASE v.k = "num" -> [raised |-> "", value |-> Num(v.n)]
      [] v.k = "str" /\ v.s \in DOMAIN FloatLiteral
            -> [raised |-> "", value |-> Num(FloatLiteral[v.s])]
      [] OTHER -> [raised |-> "ValueError", value |-> None]

\* The classes `except Exception` catches, among those the model raises.
ExceptionClasses == {"ValueError", "IndexError", "ClientError", "IrmKmiApiError"}

-----------------------------------------------------------------------------
\* RMIDataFetcher.

\* DEFAULT_FIELD_MAP as the class body sets it.
OriginalTable ==
    [barometer |-> "pressure", outTemp |-> "temperature",
     windSpeed |-> "wind_speed", windGust |-> "wind_speed_gust",
     windDir |-> "wind_bearing", cloudcover |-> "condition"]

NoFetcher == [ref |-> "none", own |-> EmptyMap, poll_interval |-> 0]

\* default_field_map(): the class dict itself, not a copy of it.
default_field_map == "DEFAULT"

\* The dict self._obs_map refers to: the class dict or a dict of its own.
ObsMap(f, default) == IF f.ref = "DEFAULT" THEN default ELSE f.own

\* __init__(**stn_dict).  numeric_ok: float() accepts poll_interval, latitude
\* and longitude.  field_map is [given, map]; obs_map.update works in place,
\* on the class dict when default_field_map() returned it.
FetcherInit(default, numeric_ok, poll_interval, field_map, ext) ==
    IF ~numeric_ok
    THEN [raised |-> "ValueError", default |-> default, fetcher |-> NoFetcher]
    ELSE LET ref == IF field_map.given THEN "own" ELSE default_field_map
         IN  IF ref = "DEFAULT"
             THEN [raised |-> "", default |-> Update(default, ext),
                   fetcher |-> [ref |-> "DEFAULT", own |-> EmptyMap,
                                poll_interval |-> poll_interval]]
             ELSE [raised |-> "", default |-> default,
                   fetcher |-> [ref |-> "own",
                                own |-> Update(field_map.map, ext),
                                poll_interval |-> poll_interval]]

get_cloud_cover_day_only(condition) ==
    IF condition \in {Str("sunny")} THEN Num(0)
    ELSE IF condition \in {Str("cloudy")} THEN Num(500)
    ELSE Num(1000)

\* get_cloud_cover(condition).
get_cloud_cover(condition) ==
    IF condition \in {Str("sunny"), Str("clear-night")} THEN Num(0)
    ELSE IF condition \in {Str("cloudy")} THEN Num(500)
    ELSE Num(1000)

\* The loop over self._obs_map.items(): the field-map part of the packet.
FieldPacket(obs_map, weather) ==
    [weewx_field \in DOMAIN obs_map |->
        IF obs_map[weewx_field] = "condition"
        THEN get_cloud_cover(Get(weather, obs_map[weewx_field]))
        ELSE Get(weather, obs_map[weewx_field])]

RECURSIVE RainRateScanNowIsFuture(_, _, _, _)
RainRateScanNowIsFuture(forecasts, i, prev, now) ==
    IF i > Len(forecasts)
    THEN [found |-> FALSE, rate |-> 0]
    ELSE IF forecasts[i].ts >= now
         THEN [found |-> TRUE, rate |-> prev.precip * 6]
         ELSE RainRateScanNowIsFuture(forecasts, i + 1, forecasts[i], now)

\* The loop over forecasts, from position i with prev as it stands: the
\* rain rate set before the break, or nothing when the loop runs out.
RECURSIVE RainRateScan(_, _, _, _)
RainRateScan(forecasts, i, prev, now) ==
    IF i > Len(forecasts)
    THEN [found |-> FALSE, rate |-> 0]
    ELSE IF forecasts[i].ts > now
         THEN [found |-> TRUE, rate |-> prev.precip * 6]
         ELSE RainRateScan(forecasts, i + 1, forecasts[i], now)

FetchCatchesClientErrorOnly(exc) == exc = "ClientError"

\* Whether the except clause of get_weather_packet catches exc.
FetchCatches(exc) == exc \in ExceptionClasses

\* get_weather_packet().  outcome is what the two awaits do: refresh and
\* close each return ("") or raise the class named.  The result: the class
\* raised to the caller (or ""), the dict returned, and whether the session
\* the call created was closed.  now is time.time(), one value for the whole
\* forecast loop; forecasts hold parsed timestamps and numeric precipitation.
GetWeatherPacket(obs_map, outcome, weather, forecasts, now) ==
    IF outcome.refresh # ""
    THEN [raised |-> IF FetchCatches(outcome.refresh) THEN "" ELSE outcome.refresh,
          packet |-> EmptyDict, closed |-> FALSE]
    ELSE IF outcome.close # ""
    THEN [raised |-> IF FetchCatches(outcome.close) THEN "" ELSE outcome.close,
          packet |-> EmptyDict, closed |-> FALSE]
    ELSE IF forecasts = <<>>
    THEN [raised |-> "IndexError", packet |-> EmptyDict, closed |-> TRUE]
    ELSE LET fields == FieldPacket(obs_map, weather)
             rain == RainRateScan(forecasts, 1, forecasts[1], now)
         IN  [raised |-> "",
              packet |-> IF rain.found
                         THEN ("rainRate" :> Num(rain.rate)) @@ fields
                         ELSE fields,
              closed |-> TRUE]

-----------------------------------------------------------------------------
\* _get_as_float and RMIDriver.genLoopPackets.

\* _get_as_float(data, key).
get_as_float(d, key) ==
    IF key \in DOMAIN d /\ Truthy(Get(d, key))
    THEN LET f == ToFloat(d[key])
         IN  IF f.raised = "ValueError" THEN None ELSE f.value
    ELSE None

\* weewx.METRIC.
METRIC == Num(160)

DriverCatchesValueErrorOnly(exc) == exc = "ValueError"

\* Whether the except clause of genLoopPackets catches exc.
DriverCatches(exc) == exc \in ExceptionClasses

\* The _packet of one iteration, from the data the fetch left.
LoopPacket(d, now) ==
    [vname \in DOMAIN d |-> get_as_float(d, vname)]
        @@ [dateTime |-> Num(now * 10), usUnits |-> METRIC]

-----------------------------------------------------------------------------
\* RMIService.__init__.

NoService == [built |-> FALSE, fetcher_ok |-> FALSE, raised |-> "",
              bound |-> {}, binding |-> "", enable |-> ""]

\* The options as weewx.conf or a caller gives them; "<absent>" is an option
\* left out, the others name the Python value.
BindingOptions == {"<absent>", "loop", "archive", "both"}
EnableOptions == {"<absent>", "True", "False", "'false'", "''"}

\* config_dict[DRIVER_NAME].get("binding", "loop").
BindingOf(option) == IF option = "<absent>" THEN "loop" ELSE option

\* bool() of config_dict[DRIVER_NAME].get("enable", True).
EnableTruthy(option) == option \notin {"False", "''"}

ServiceBindLoopByDefault(binding, enabled) ==
    IF ~enabled THEN [raised |-> "", bound |-> {}]
    ELSE IF binding = "archive"
    THEN [raised |-> "", bound |-> {<<"NEW_ARCHIVE_RECORD", "new_archive_record">>}]
    ELSE [raised |-> "", bound |-> {<<"NEW_LOOP_PACKET", "new_loop_packet">>}]

\* The lines after self.enable is read: the early return, then the bind or
\* the ValueError.
ServiceBind(binding, enabled) ==
    IF ~enabled THEN [raised |-> "", bound |-> {}]
    ELSE IF binding = "loop"
    THEN [raised |-> "", bound |-> {<<"NEW_LOOP_PACKET", "new_loop_packet">>}]
    ELSE IF binding = "archive"
    THEN [raised |-> "", bound |-> {<<"NEW_ARCHIVE_RECORD", "new_archive_record">>}]
    ELSE [raised |-> "ValueError", bound |-> {}]

-----------------------------------------------------------------------------
\* The inputs.

\* Values of the payload's "temperature" and "condition"; "<absent>" is a key
\* the payload does not hold.
TemperatureValues == {None, Num(0), Str("21.5"), Str("abc")}
ConditionValues ==
    {Str("sunny"), Str("clear-night"), Str("cloudy"), Str("rainy"), Str("")}

Weathers ==
    { [pressure |-> Num(10132)] @@ t @@ c :
        t \in {EmptyDict} \cup {[temperature |-> v] : v \in TemperatureValues \ {None}},
        c \in {EmptyDict} \cup {[condition |-> v] : v \in ConditionValues} }

\* Forecast points: the parsed "datetime" and "native_precipitation" (tenths).
Points == [ts : 1..MaxLen, precip : {0, 20}]

\* get_radar_forecast(): at most MaxLen points, ascending by timestamp.
Forecasts ==
    { f \in UNION { [1..n -> Points] : n \in 0..MaxLen } :
        \A i, j \in DOMAIN f : i < j => f[i].ts < f[j].ts }

\* What the two awaits of one call do.
Outcomes ==
    { [refresh |-> "", close |-> ""],
      [refresh |-> "IrmKmiApiError", close |-> ""],
      [refresh |-> "", close |-> "ClientError"] }

\* The field_map option: left out, or a dict.
FieldMapOptions ==
    { [given |-> FALSE, map |-> EmptyMap],
      [given |-> TRUE, map |-> [outTemp |-> "temperature"]],
      [given |-> TRUE, map |-> [sky |-> "condition", rainRate |-> "temperature"]] }

\* The field_map_extensions option; left out, it is the empty dict.
Extensions ==
    { EmptyMap,
      [extraTemp1 |-> "temperature"],
      [cloudcover |-> "pressure"],
      [rainRate |-> "condition"] }

PollIntervals == {1, 2}

-----------------------------------------------------------------------------
\* The state machine.

NoFetch == [called |-> FALSE, outcome |-> [refresh |-> "", close |-> ""],
            now |-> 0, raised |-> "", packet |-> EmptyDict, closed |-> FALSE]

OneUpstream == [weather |-> [pressure |-> Num(10132)], forecasts |-> <<>>]

\* The module loaded, nothing constructed.
InitConfig ==
    /\ DEFAULT_FIELD_MAP = OriginalTable
    /\ fetcher = NoFetcher
    /\ nconstructed = 0
    /\ service = NoService
    /\ upstream = OneUpstream
    /\ clock = 1
    /\ pc = "top"
    /\ nticks = 0
    /\ fetch = NoFetch
    /\ data = EmptyDict
    /\ packet = EmptyDict
    /\ slept = 0
    /\ open_sessions = 0

\* RMIDataFetcher(**stn_dict), as RMIDriver.__init__ and loader call it.
Construct ==
    /\ nconstructed < MaxConstructions
    /\ \E numeric_ok \in BOOLEAN, poll \in PollIntervals,
          field_map \in FieldMapOptions, ext \in Extensions :
          LET r == FetcherInit(DEFAULT_FIELD_MAP, numeric_ok, poll, field_map, ext)
          IN  /\ DEFAULT_FIELD_MAP' = r.default
              /\ fetcher' = IF r.raised = "" THEN r.fetcher ELSE fetcher
              /\ nconstructed' = nconstructed + 1
    /\ UNCHANGED <<service, upstream, clock, pc, nticks, fetch, data, packet,
                   slept, open_sessions>>

\* RMIService(engine, config_dict): the Fetcher is constructed first, then
\* binding and enable are read.
ServiceInit ==
    /\ nconstructed < MaxConstructions
    /\ \E binding \in BindingOptions, enable \in EnableOptions,
          numeric_ok \in BOOLEAN, poll \in PollIntervals,
          field_map \in FieldMapOptions, ext \in Extensions :
          LET r == FetcherInit(DEFAULT_FIELD_MAP, numeric_ok, poll, field_map, ext)
              b == ServiceBind(BindingOf(binding), EnableTruthy(enable))
          IN  /\ DEFAULT_FIELD_MAP' = r.default
              /\ fetcher' = IF r.raised = "" THEN r.fetcher ELSE fetcher
              /\ nconstructed' = nconstructed + 1
              /\ service' =
                    IF r.raised # ""
                    THEN [built |-> TRUE, fetcher_ok |-> FALSE,
                          raised |-> r.raised, bound |-> {},
                          binding |-> binding, enable |-> enable]
                    ELSE [built |-> TRUE, fetcher_ok |-> TRUE,
                          raised |-> b.raised, bound |-> b.bound,
                          binding |-> binding, enable |-> enable]
    /\ UNCHANGED <<upstream, clock, pc, nticks, fetch, data, packet, slept,
                   open_sessions>>

NextConfig == Construct \/ ServiceInit

SpecConfig == InitConfig /\ [][NextConfig]_vars

\* A driver constructed from a fresh module, about to enter genLoopPackets,
\* against an upstream in any state.
Init ==
    /\ \E poll \in PollIntervals, field_map \in FieldMapOptions, ext \in Extensions :
          LET r == FetcherInit(OriginalTable, TRUE, poll, field_map, ext)
          IN  /\ field_map.given => ext = EmptyMap
              /\ DEFAULT_FIELD_MAP = r.default
              /\ fetcher = r.fetcher
    /\ nconstructed = 1
    /\ service = NoService
    /\ upstream \in [weather : Weathers, forecasts : Forecasts]
    /\ clock = 1
    /\ pc = "top"
    /\ nticks = 0
    /\ fetch = NoFetch
    /\ data = EmptyDict
    /\ packet = EmptyDict
    /\ slept = 0
    /\ open_sessions = 0

\* One iteration of genLoopPackets, from `data = {}` to the yield.
LoopIteration ==
    /\ pc = "top"
    /\ nticks < MaxTicks
    /\ \E outcome \in Outcomes :
          LET r == GetWeatherPacket(ObsMap(fetcher, DEFAULT_FIELD_MAP), outcome,
                                    upstream.weather, upstream.forecasts, clock)
              d == IF r.raised = "" THEN r.packet ELSE EmptyDict
          IN  /\ fetch' = [called |-> TRUE, outcome |-> outcome, now |-> clock,
                           raised |-> r.raised, packet |-> r.packet,
                           closed |-> r.closed]
              /\ open_sessions' = open_sessions + (IF r.closed THEN 0 ELSE 1)
              /\ IF r.raised = "" \/ DriverCatches(r.raised)
                 THEN /\ data' = d
                      /\ packet' = LoopPacket(d, clock)
                      /\ pc' = "yielded"
                 ELSE /\ data' = EmptyDict
                      /\ packet' = packet
                      /\ pc' = "raised"
    /\ nticks' = nticks + 1
    /\ UNCHANGED <<DEFAULT_FIELD_MAP, fetcher, nconstructed, service, upstream,
                   clock, slept>>

\* The consumer asks for the next packet: time.sleep(poll_interval).
Sleep ==
    /\ pc = "yielded"
    /\ slept' = fetcher.poll_interval
    /\ clock' = clock + fetcher.poll_interval
    /\ pc' = "top"
    /\ UNCHANGED <<DEFAULT_FIELD_MAP, fetcher, nconstructed, service, upstream,
                   nticks, fetch, data, packet, open_sessions>>

Next == LoopIteration \/ Sleep

Spec == Init /\ [][Next]_vars

-----------------------------------------------------------------------------
\* The claims.  Those on the fetch and the driver loop are checked under
\* Spec, those on construction under SpecConfig.

TheObsMap == ObsMap(fetcher, DEFAULT_FIELD_MAP)
Failed == fetch.outcome.refresh # "" \/ fetch.outcome.close # ""
Succeeded == fetch.called /\ ~Failed /\ fetch.raised = ""
PastPoints == { i \in DOMAIN upstream.forecasts : upstream.forecasts[i].ts <= fetch.now }
FuturePoints == { i \in DOMAIN upstream.forecasts : upstream.forecasts[i].ts > fetch.now }
LoopHandler == <<"NEW_LOOP_PACKET", "new_loop_packet">>
ArchiveHandler == <<"NEW_ARCHIVE_RECORD", "new_archive_record">>

\* C1: every session a fetch opened is closed when the fetch returns: no
\* session is open between two fetches.
C1_SessionsClosed == open_sessions = 0

\* C2: when the refresh, or the close after it, raises, the fetch returns
\* the empty record and raises nothing.
C2_FailureGivesEmpty ==
    (fetch.called /\ Failed) => (fetch.raised = "" /\ DOMAIN fetch.packet = {})

C2_Witness ==
    /\ fetch.called
    /\ fetch.outcome.close # ""
    /\ fetch.raised = ""
    /\ fetch.packet = EmptyDict

\* C3: with a point at or before now and a point after now, a successful
\* fetch sets rainRate to 6 times the precipitation of the latest point at
\* or before now, which is the point just before the first future point.
C3_RainRateFromLatestPast ==
    (fetch.called /\ ~Failed /\ PastPoints # {} /\ FuturePoints # {}) =>
        LET latest == CHOOSE i \in PastPoints : \A j \in PastPoints : j <= i
            first == CHOOSE i \in FuturePoints : \A j \in FuturePoints : i <= j
        IN  /\ fetch.raised = ""
            /\ first = latest + 1
            /\ "rainRate" \in DOMAIN fetch.packet
            /\ fetch.packet["rainRate"] = Num(6 * upstream.forecasts[latest].precip)

C3_Witness ==
    /\ Succeeded
    /\ fetch.now = 2
    /\ upstream.forecasts = << [ts |-> 1, precip |-> 0], [ts |-> 2, precip |-> 20],
                               [ts |-> 3, precip |-> 0] >>
    /\ fetch.packet["rainRate"] = Num(120)

\* C4: with a non-empty forecast all at or before now, a successful fetch
\* returns a record whose rainRate is 6 times the last point's precipitation.
C4_StaleFallback ==
    (Succeeded /\ upstream.forecasts # <<>> /\ FuturePoints = {}) =>
        /\ "rainRate" \in DOMAIN fetch.packet
        /\ fetch.packet["rainRate"] =
              Num(6 * upstream.forecasts[Len(upstream.forecasts)].precip)

\* C5: with the refresh and the close succeeding and an empty forecast, the
\* fetch returns normally a record with every field-map entry and no
\* rain-rate key of its own.
C5_EmptyForecastReturns ==
    (fetch.called /\ ~Failed /\ upstream.forecasts = <<>>) =>
        /\ fetch.raised = ""
        /\ DOMAIN fetch.packet = DOMAIN TheObsMap

\* The bucket the specification gives a condition code.
Bucket(code) ==
    CASE code \in {Str("sunny"), Str("clear-night")} -> Num(0)
      [] code = Str("cloudy") -> Num(500)
      [] OTHER -> Num(1000)

\* What the field map asks for under output name k.
FieldRule(k) ==
    IF TheObsMap[k] = "condition"
    THEN /\ fetch.packet[k] = Bucket(Get(upstream.weather, "condition"))
         /\ fetch.packet[k] \in {Num(0), Num(500), Num(1000)}
    ELSE fetch.packet[k] = Get(upstream.weather, TheObsMap[k])

\* C6 as stated: in a successful record every output name of the field map
\* holds the bucket (source "condition") or the payload value (any other
\* source), and no condition code makes the fetch fail.
C6_EveryFieldFollowsMap ==
    /\ (fetch.called /\ ~Failed /\ upstream.forecasts # <<>>) => fetch.raised = ""
    /\ Succeeded => \A k \in DOMAIN TheObsMap : k \in DOMAIN fetch.packet /\ FieldRule(k)

\* C6 amended: the same for every output name but rainRate; an output name
\* rainRate follows the field map only when no forecast point is after now,
\* and holds the derived rain rate otherwise.
C6_FieldsButRainRateFollowMap ==
    /\ (fetch.called /\ ~Failed /\ upstream.forecasts # <<>>) => fetch.raised = ""
    /\ Succeeded =>
          \A k \in DOMAIN TheObsMap :
              /\ k \in DOMAIN fetch.packet
              /\ (k # "rainRate" \/ FuturePoints = {}) => FieldRule(k)
              /\ (k = "rainRate" /\ FuturePoints # {}) =>
                    \E i \in DOMAIN upstream.forecasts :
                        fetch.packet[k] = Num(6 * upstream.forecasts[i].precip)

C6_Witness ==
    /\ Succeeded
    /\ Get(upstream.weather, "condition") = Str("clear-night")
    /\ Get(upstream.weather, "temperature") = Str("21.5")
    /\ TheObsMap = OriginalTable
    /\ fetch.packet["cloudcover"] = Num(0)
    /\ fetch.packet["outTemp"] = Str("21.5")
    /\ fetch.packet["windSpeed"] = None

\* The number a value coerces to, if any.
Coercible(v) == v.k = "num" \/ (v.k = "str" /\ v.s \in {"21.5", "0"})
FloatValue(v) ==
    CASE v.k = "num" -> Num(v.n)
      [] v = Str("21.5") -> Num(215)
      [] v = Str("0") -> Num(0)

\* C7: the packet yielded holds, under every key of the record, the float
\* value of a number or coercible string, and null exactly for a value that
\* is null or cannot be coerced.
C7_PacketHoldsFloats ==
    (fetch.called /\ pc # "raised") =>
        \A k \in DOMAIN data :
            /\ k \in DOMAIN packet
            /\ Coercible(data[k]) => packet[k] = FloatValue(data[k])
            /\ packet[k] = None <=> ~Coercible(data[k])

\* C8: no outcome of the fetch ends the loop; every iteration does a fetch
\* at the current time and yields one packet with dateTime and usUnits, and
\* only these when the fetch failed or raised; what it yields depends on
\* this fetch alone; after the yield the loop sleeps poll_interval, whatever
\* the outcome, and is back at the fetch.
C8_LoopSurvivesFailures ==
    [][ /\ pc' # "raised"
        /\ nticks' # nticks =>
              /\ pc = "top" /\ pc' = "yielded" /\ nticks' = nticks + 1
              /\ fetch'.called /\ fetch'.now = clock
              /\ data' = (IF fetch'.raised = "" THEN fetch'.packet ELSE EmptyDict)
              /\ DOMAIN packet' = DOMAIN data' \cup {"dateTime", "usUnits"}
              /\ (fetch'.raised # "" \/ fetch'.outcome.refresh # ""
                    \/ fetch'.outcome.close # "")
                    => DOMAIN packet' = {"dateTime", "usUnits"}
        /\ (pc = "yielded" /\ pc' # pc) =>
              /\ pc' = "top"
              /\ slept' = fetcher.poll_interval
              /\ clock' = clock + fetcher.poll_interval
              /\ packet' = packet /\ nticks' = nticks
      ]_vars

C8_Witness ==
    /\ nticks = 2
    /\ pc = "yielded"
    /\ open_sessions = 1
    /\ Succeeded
    /\ "rainRate" \in DOMAIN packet
    /\ clock = 1 + fetcher.poll_interval

\* C9 as stated: a binding other than "loop" and "archive" ends in an error
\* whatever enable is; a construction that ends without error has bound
\* exactly the handler its binding names.
C9_BadBindingAlwaysFails ==
    service.built =>
        /\ BindingOf(service.binding) \notin {"loop", "archive"} => service.raised # ""
        /\ (service.raised = "" /\ BindingOf(service.binding) = "loop")
              => service.bound = {LoopHandler}
        /\ (service.raised = "" /\ BindingOf(service.binding) = "archive")
              => service.bound = {ArchiveHandler}

\* C9 amended: with enable truthy (anything but False and the empty string)
\* a binding other than "loop" and "archive" ends in an error, and a
\* construction without error has bound exactly the handler its binding
\* names; with enable falsy nothing is bound and the binding raises nothing.
C9_BadBindingFailsWhenEnabled ==
    service.built =>
        IF service.enable \in {"False", "''"}
        THEN /\ service.bound = {}
             /\ service.fetcher_ok => service.raised = ""
        ELSE /\ BindingOf(service.binding) \notin {"loop", "archive"}
                    => (service.raised = "ValueError" /\ service.bound = {})
             /\ (service.raised = "" /\ BindingOf(service.binding) = "loop")
                    => service.bound = {LoopHandler}
             /\ (service.raised = "" /\ BindingOf(service.binding) = "archive")
                    => service.bound = {ArchiveHandler}
             /\ (service.fetcher_ok /\ BindingOf(service.binding) \in {"loop", "archive"})
                    => service.raised = ""

C9_Witness ==
    /\ service.built
    /\ service.fetcher_ok
    /\ service.enable = "'false'"
    /\ service.binding = "both"
    /\ service.raised = "ValueError"
    /\ service.bound = {}

\* C10: the default table holds exactly its six original entries after any
\* sequence of Fetcher constructions.
C10_DefaultTableImmutable == DEFAULT_FIELD_MAP = OriginalTable

====
